---------------------------- MODULE Spec2Model ----------------------------
(***************************************************************************)
(* Transitive trust score propagation (transitive-trust-sdk).              *)
(*                                                                         *)
(* The model covers the binary-heap PriorityQueue and the three score      *)
(* engines of the repository:                                              *)
(*   "single"     computeTrustScore(source, target), one weight per edge   *)
(*   "dual"       computeScores(source) behind computeTrustScores(source,  *)
(*                targets[]), positive and negative weight per edge        *)
(*   "dualTarget" computeTrustScores(source, target), positive and         *)
(*                negative weight per edge, one target                     *)
(* Numbers are exact rationals [n, d] in lowest terms (d > 0); the         *)
(* program computes in IEEE doubles, the model in exact arithmetic.        *)
(***************************************************************************)
EXTENDS Integers, Sequences, FiniteSets, TLC

(***************************************************************************)
(* Bounds of the model.                                                    *)
(***************************************************************************)
\* number of nodes of the enumerated graphs
NumNodes == 3
\* largest number of edges of an enumerated single-weight graph
MaxEdges == 4
\* largest number of edges of an enumerated two-weight graph
MaxDualEdges == 3
\* enumerated weights are k / WDen for k in 0..WDen
WDen == 2
\* largest number of edges of an enumerated graph of the fair specification
MaxFairEdges == 2

(***************************************************************************)
(* Exact rational arithmetic.                                              *)
(***************************************************************************)
Abs(x) == IF x < 0 THEN -x ELSE x

RECURSIVE GCD(_, _)
GCD(a, b) == IF b = 0 THEN a ELSE GCD(b, a % b)

Rat(n, d) ==
  LET g == GCD(Abs(n), d)
  IN  [n |-> n \div g, d |-> d \div g]

Zero == Rat(0, 1)
One == Rat(1, 1)

RAdd(a, b) == Rat(a.n * b.d + b.n * a.d, a.d * b.d)
RSub(a, b) == Rat(a.n * b.d - b.n * a.d, a.d * b.d)
RMul(a, b) == Rat(a.n * b.n, a.d * b.d)
RLt(a, b) == a.n * b.d < b.n * a.d
RLe(a, b) == a.n * b.d <= b.n * a.d
\* Math.max(a, b)
RMax(a, b) == IF RLt(a, b) THEN b ELSE a

(***************************************************************************)
(* PriorityQueue: a binary max-heap in an array.  The heap is a sequence   *)
(* of [key, priority]; indices are the 0-based indices of the code, and    *)
(* At(h, i) is this.heap[i].                                               *)
(***************************************************************************)
At(h, i) == h[i + 1]

parent(i) == (i - 1) \div 2
leftChild(i) == 2 * i + 1
rightChild(i) == 2 * i + 2

\* mutant of swap: the entry at j is copied to i, the entry at i is lost
swapCopy(h, i, j) == [h EXCEPT ![i + 1] = h[j + 1]]

swap(h, i, j) == [h EXCEPT ![i + 1] = h[j + 1], ![j + 1] = h[i + 1]]

RECURSIVE heapifyUp(_, _)
heapifyUp(h, i) ==
  IF i > 0 /\ RLt(At(h, parent(i)).priority, At(h, i).priority)
  THEN heapifyUp(swap(h, i, parent(i)), parent(i))
  ELSE h

RECURSIVE heapifyDown(_, _)
heapifyDown(h, i) ==
  LET left == leftChild(i)
      right == rightChild(i)
      m1 == IF left < Len(h) /\ RLt(At(h, i).priority, At(h, left).priority)
            THEN left ELSE i
      maxIndex == IF right < Len(h) /\ RLt(At(h, m1).priority, At(h, right).priority)
                  THEN right ELSE m1
  IN  IF i # maxIndex THEN heapifyDown(swap(h, i, maxIndex), maxIndex) ELSE h

insert(h, key, priority) ==
  heapifyUp(Append(h, [key |-> key, priority |-> priority]), Len(h))

\* this.heap.pop(): the array without its last element
pop(h) == SubSeq(h, 1, Len(h) - 1)

\* mutant of extractMaxHeap: the last entry is returned but not popped
extractMaxKeepLast(h) ==
  IF Len(h) <= 1 THEN h
  ELSE heapifyDown([pop(h) EXCEPT ![1] = h[Len(h)]], 0)

\* the heap after extractMax()
extractMaxHeap(h) ==
  IF Len(h) = 0 THEN h
  ELSE IF Len(h) = 1 THEN pop(h)
  ELSE heapifyDown([pop(h) EXCEPT ![1] = h[Len(h)]], 0)

\* the entry extractMax() returns (the heap is not empty)
extractMaxEntry(h) == h[1]

isEmpty(h) == Len(h) = 0

\* this.heap.findIndex(item => item.key === key), -1 when there is none
findIndex(h, key) ==
  IF \E i \in 1..Len(h) : h[i].key = key
  THEN (CHOOSE i \in 1..Len(h) :
          /\ h[i].key = key
          /\ \A j \in 1..(i - 1) : h[j].key # key) - 1
  ELSE -1

\* mutant of updatePriority: the priority is stored, the entry is not moved
updatePriorityInPlace(h, key, newPriority) ==
  LET index == findIndex(h, key)
  IN  IF index = -1 THEN h ELSE [h EXCEPT ![index + 1].priority = newPriority]

updatePriority(h, key, newPriority) ==
  LET index == findIndex(h, key)
  IN  IF index = -1 THEN h
      ELSE LET oldPriority == At(h, index).priority
               h2 == [h EXCEPT ![index + 1].priority = newPriority]
           IN  IF RLt(oldPriority, newPriority)
               THEN heapifyUp(h2, index)
               ELSE heapifyDown(h2, index)

(***************************************************************************)
(* Graphs.  A graph is [nodes, out]: nodes is the sequence of the nodes in *)
(* insertion order (the order forEachNode visits them), out[u] the         *)
(* sequence of u's out-edges [target, positiveWeight, negativeWeight] in   *)
(* insertion order (the order forEachOutNeighbor visits them).  The        *)
(* single-weight graph keeps its weight in positiveWeight and has          *)
(* negativeWeight = 0.                                                     *)
(***************************************************************************)
Node == 1..NumNodes
Pairs == Node \X Node

Weights == {Rat(k, WDen) : k \in 0..WDen}
WeightPairs == [positiveWeight : Weights, negativeWeight : Weights]
SingleWeights == [positiveWeight : Weights, negativeWeight : {Zero}]

Edge(t, pw, nw) == [target |-> t, positiveWeight |-> pw, negativeWeight |-> nw]

\* out-edges of u among the pairs E with weights w, targets t..NumNodes ascending
RECURSIVE OutFrom(_, _, _, _)
OutFrom(E, w, u, t) ==
  IF t > NumNodes THEN <<>>
  ELSE IF <<u, t>> \in E
       THEN <<Edge(t, w[<<u, t>>].positiveWeight, w[<<u, t>>].negativeWeight)>>
            \o OutFrom(E, w, u, t + 1)
       ELSE OutFrom(E, w, u, t + 1)

MkGraph(E, w) ==
  [nodes |-> [i \in 1..NumNodes |-> i],
   out |-> [u \in Node |-> OutFrom(E, w, u, 1)]]

EdgeSets(k) == {E \in SUBSET Pairs : Cardinality(E) <= k}

\* g is an enumerated graph of the engine m with at most k edges, self-loops
\* and edges into the source included
IsGeneric(m, g, k) ==
  IF m = "single"
  THEN \E E \in EdgeSets(k) : \E w \in [E -> SingleWeights] : g = MkGraph(E, w)
  ELSE \E E \in EdgeSets(k) : \E w \in [E -> WeightPairs] : g = MkGraph(E, w)

\* The graph of the tests and of the README: nodes A, B, C, D are 1, 2, 3, 4,
\* addEdge(A,B) addEdge(B,C) addEdge(C,D) addEdge(A,C).
A == 1
B == 2
C == 3
D == 4

ReferenceSingle ==
  [nodes |-> <<A, B, C, D>>,
   out |-> [u \in 1..4 |->
     CASE u = A -> <<Edge(B, Rat(6, 10), Zero), Edge(C, Rat(5, 10), Zero)>>
       [] u = B -> <<Edge(C, Rat(4, 10), Zero)>>
       [] u = C -> <<Edge(D, Rat(5, 10), Zero)>>
       [] OTHER -> <<>>]]

ReferenceDual ==
  [nodes |-> <<A, B, C, D>>,
   out |-> [u \in 1..4 |->
     CASE u = A -> <<Edge(B, Rat(6, 10), Rat(2, 10)), Edge(C, Rat(5, 10), Rat(1, 10))>>
       [] u = B -> <<Edge(C, Rat(4, 10), Rat(1, 10))>>
       [] u = C -> <<Edge(D, Rat(5, 10), Rat(3, 10))>>
       [] OTHER -> <<>>]]

\* Two nodes trusted alike by the source, with a common out-neighbour:
\* addEdge(A,B,1,0) addEdge(A,C,1,0) addEdge(B,D,1,0) addEdge(C,D,1/2,1/2).
DiamondDual ==
  [nodes |-> <<A, B, C, D>>,
   out |-> [u \in 1..4 |->
     CASE u = A -> <<Edge(B, One, Zero), Edge(C, One, Zero)>>
       [] u = B -> <<Edge(D, One, Zero)>>
       [] u = C -> <<Edge(D, Rat(1, 2), Rat(1, 2))>>
       [] OTHER -> <<>>]]

\* The graph of the second example of the README: addEdge(A,B,0.8,0.1)
\* addEdge(B,C,0.6,0.2) addEdge(C,D,0.7,0.3) addEdge(A,C,0.5,0.1)
\* addEdge(B,D,0.4,0.1).
ReadmeDual ==
  [nodes |-> <<A, B, C, D>>,
   out |-> [u \in 1..4 |->
     CASE u = A -> <<Edge(B, Rat(8, 10), Rat(1, 10)), Edge(C, Rat(5, 10), Rat(1, 10))>>
       [] u = B -> <<Edge(C, Rat(6, 10), Rat(2, 10)), Edge(D, Rat(4, 10), Rat(1, 10))>>
       [] u = C -> <<Edge(D, Rat(7, 10), Rat(3, 10))>>
       [] OTHER -> <<>>]]

Modes == {"single", "dual", "dualTarget"}

\* A cycle B -> C -> B with a self-loop at C and an edge back into A:
\* addEdge(A,B) addEdge(B,C) addEdge(C,B) addEdge(C,C) addEdge(B,A) addEdge(C,D).
CycleSingle ==
  [nodes |-> <<A, B, C, D>>,
   out |-> [u \in 1..4 |->
     CASE u = A -> <<Edge(B, Rat(1, 2), Zero)>>
       [] u = B -> <<Edge(C, Rat(1, 2), Zero), Edge(A, One, Zero)>>
       [] u = C -> <<Edge(B, Rat(1, 2), Zero), Edge(C, One, Zero),
                     Edge(D, Rat(1, 2), Zero)>>
       [] OTHER -> <<>>]]

CycleDual ==
  [nodes |-> <<A, B, C, D>>,
   out |-> [u \in 1..4 |->
     CASE u = A -> <<Edge(B, One, Rat(1, 2))>>
       [] u = B -> <<Edge(C, One, Rat(1, 2)), Edge(A, One, One)>>
       [] u = C -> <<Edge(B, Rat(1, 2), One), Edge(C, One, One),
                     Edge(D, Rat(1, 2), Rat(1, 2))>>
       [] OTHER -> <<>>]]

\* the graphs of the tests and the README and the graphs above, by engine
Scenarios(m) ==
  IF m = "single" THEN {ReferenceSingle, CycleSingle}
  ELSE {ReferenceDual, DiamondDual, CycleDual, ReadmeDual}

NodesOf(g) == {g.nodes[i] : i \in 1..Len(g.nodes)}
hasNode(g, x) == x \in NodesOf(g)

(***************************************************************************)
(* The engines as functions on the state of one call:                      *)
(*   s = [pScores, nScores, inspected, pq, node, nodeScore, todo, order]   *)
(* node is the node just extracted, todo the out-edges of node that        *)
(* forEachOutNeighbor has still to visit, order the history of the         *)
(* extractions (not program state): one [key, score, fresh] per call of    *)
(* extractMax, fresh when the key was not yet inspected.  The single       *)
(* engine keeps its scores map in pScores and leaves nScores at 0.         *)
(***************************************************************************)
\* mutant of initialScore: every node starts with the score of the source
initialScoreAll(x, source) == One

\* const pScore = node === source ? 1 : 0
initialScore(x, source) == IF x = source THEN One ELSE Zero

\* forEachNode(node => pq.insert(node, pScore)) from the i-th node on
RECURSIVE insertAll(_, _, _, _)
insertAll(h, g, source, i) ==
  IF i > Len(g.nodes) THEN h
  ELSE insertAll(insert(h, g.nodes[i], initialScore(g.nodes[i], source)),
                 g, source, i + 1)

initialize(g, source) ==
  [pScores |-> [x \in NodesOf(g) |-> initialScore(x, source)],
   nScores |-> [x \in NodesOf(g) |-> Zero],
   inspected |-> {},
   pq |-> insertAll(<<>>, g, source, 1),
   node |-> source,
   nodeScore |-> Zero,
   todo |-> <<>>,
   order |-> <<>>]

\* nodeScore of the node just extracted
scoreOf(m, s, x) ==
  IF m = "single" THEN s.pScores[x]
  ELSE RMax(RSub(s.pScores[x], s.nScores[x]), Zero)

\* one pass through the head of the while loop: extractMax, the inspected
\* test, inspected.add and the read of nodeScore
extractStep(m, g, s) ==
  LET x == extractMaxEntry(s.pq).key
      h == extractMaxHeap(s.pq)
      entry == [key |-> x, score |-> scoreOf(m, s, x), fresh |-> x \notin s.inspected]
  IN  IF x \in s.inspected
      THEN [s EXCEPT !.pq = h, !.order = Append(@, entry)]
      ELSE [s EXCEPT !.pq = h,
                     !.inspected = @ \cup {x},
                     !.node = x,
                     !.nodeScore = scoreOf(m, s, x),
                     !.todo = g.out[x],
                     !.order = Append(@, entry)]

\* mutant of newScore: the old score is not subtracted
additiveScore(oldScore, nodeScore, weight) == RAdd(oldScore, RMul(nodeScore, weight))

\* mutant of newScore: the product rule nodeScore * weight
productScore(oldScore, nodeScore, weight) == RMul(nodeScore, weight)

\* oldScore + (nodeScore - oldScore) * weight
newScore(oldScore, nodeScore, weight) ==
  RAdd(oldScore, RMul(RSub(nodeScore, oldScore), weight))

\* the callback of forEachOutNeighbor in computeTrustScore
relaxSingle(s, e) ==
  LET neighbor == e.target
      oldScore == s.pScores[neighbor]
      new == newScore(oldScore, s.nodeScore, e.positiveWeight)
  IN  IF neighbor \notin s.inspected /\ RLt(oldScore, new)
      THEN [s EXCEPT !.pScores[neighbor] = new,
                     !.pq = updatePriority(@, neighbor, new)]
      ELSE s

\* mutant of updateP: the difference is not multiplied by the weight
updatePUnweighted(p, nodeScore, positiveWeight) ==
  IF RLt(p, nodeScore) THEN RAdd(p, RSub(nodeScore, p)) ELSE p

\* mutant of updateP: the nodeScore > pScores.get(neighbor) test left out
updatePAlways(p, nodeScore, positiveWeight) == newScore(p, nodeScore, positiveWeight)

\* if (nodeScore > pScores.get(neighbor)) pScores.set(neighbor, newPScore)
updateP(p, nodeScore, positiveWeight) ==
  IF RLt(p, nodeScore) THEN newScore(p, nodeScore, positiveWeight) ELSE p

\* mutant of updateN: the difference is not multiplied by the weight
updateNUnweighted(n, nodeScore, negativeWeight) ==
  IF RLt(n, nodeScore) THEN RAdd(n, RSub(nodeScore, n)) ELSE n

\* if (nodeScore > nScores.get(neighbor)) nScores.set(neighbor, newNScore)
updateN(n, nodeScore, negativeWeight) ==
  IF RLt(n, nodeScore) THEN newScore(n, nodeScore, negativeWeight) ELSE n

\* mutant of updateBoth: the priority set is the positive score
updateBothPositive(s, e) ==
  LET neighbor == e.target
      p == updateP(s.pScores[neighbor], s.nodeScore, e.positiveWeight)
      n == updateN(s.nScores[neighbor], s.nodeScore, e.negativeWeight)
  IN  [s EXCEPT !.pScores[neighbor] = p,
                !.nScores[neighbor] = n,
                !.pq = updatePriority(@, neighbor, p)]

\* the body both two-weight engines run for a neighbour they visit
updateBoth(s, e) ==
  LET neighbor == e.target
      p == updateP(s.pScores[neighbor], s.nodeScore, e.positiveWeight)
      n == updateN(s.nScores[neighbor], s.nodeScore, e.negativeWeight)
  IN  [s EXCEPT !.pScores[neighbor] = p,
                !.nScores[neighbor] = n,
                !.pq = updatePriority(@, neighbor, RSub(p, n))]

\* mutant of visits: the net-score test left out
visitsUngated(s, neighbor) == neighbor \notin s.inspected

\* !inspected.has(neighbor) && pScores.get(neighbor) - nScores.get(neighbor) < nodeScore
visits(s, neighbor) ==
  /\ neighbor \notin s.inspected
  /\ RLt(RSub(s.pScores[neighbor], s.nScores[neighbor]), s.nodeScore)

\* the callback of forEachOutNeighbor in computeScores
relaxDual(s, e) ==
  IF visits(s, e.target) THEN updateBoth(s, e) ELSE s

\* mutant of visitsTarget: the inspected test left out
visitsAll(s, neighbor) == TRUE

\* !inspected.has(neighbor)
visitsTarget(s, neighbor) == neighbor \notin s.inspected

\* the callback of forEachOutNeighbor in computeTrustScores(source, target)
relaxDualTarget(s, e) ==
  IF visitsTarget(s, e.target) THEN updateBoth(s, e) ELSE s

\* one call of the callback of forEachOutNeighbor, on the next out-edge
relaxStep(m, s) ==
  LET e == Head(s.todo)
      t == [s EXCEPT !.todo = Tail(@)]
  IN  CASE m = "single" -> relaxSingle(t, e)
        [] m = "dual" -> relaxDual(t, e)
        [] OTHER -> relaxDualTarget(t, e)

\* { positiveScore, negativeScore, netScore } of a node
triple(s, x) ==
  [positiveScore |-> s.pScores[x],
   negativeScore |-> s.nScores[x],
   netScore |-> RSub(s.pScores[x], s.nScores[x])]

\* mutant of resultOf: the results map has an entry for the source
resultOfAll(m, g, source, s) ==
  CASE m = "single" -> [t \in NodesOf(g) |-> RMax(s.pScores[t], Zero)]
    [] OTHER -> [t \in NodesOf(g) |-> triple(s, t)]

\* What the call returns, as a function of the target asked for:
\* Math.max(scores.get(target) || 0, 0) of computeTrustScore, the results map
\* of computeScores (every node but the source), the triple of
\* computeTrustScores(source, target).
resultOf(m, g, source, s) ==
  CASE m = "single" -> [t \in NodesOf(g) |-> RMax(s.pScores[t], Zero)]
    [] m = "dual" -> [t \in NodesOf(g) \ {source} |-> triple(s, t)]
    [] OTHER -> [t \in NodesOf(g) |-> triple(s, t)]

\* the while loop run to its end from state s
RECURSIVE runLoop(_, _, _)
runLoop(m, g, s) ==
  IF s.todo # <<>> THEN runLoop(m, g, relaxStep(m, s))
  ELSE IF ~isEmpty(s.pq) THEN runLoop(m, g, extractStep(m, g, s))
  ELSE s

(***************************************************************************)
(* One call of an engine as a state machine.                               *)
(***************************************************************************)
VARIABLES
  mode,       \* the engine called
  graph,      \* this.graph
  source,     \* the source argument
  pc,         \* "idle", "start", "loop", "done"
  pScores,    \* pScores (scores in computeTrustScore)
  nScores,    \* nScores
  inspected,  \* inspected
  pq,         \* pq.heap
  node,       \* the node extracted last
  nodeScore,  \* nodeScore
  todo,       \* out-edges of node that forEachOutNeighbor has still to visit
  order,      \* history: the entries extractMax returned, in order
  result,     \* the value returned, per target
  op,         \* the method called last on the graph object
  target,     \* the target argument of that call (a node or a list of nodes)
  weight,     \* the weight arguments of that call, when it is an addEdge
  error,      \* the error that call threw, "none" when it returned
  written,    \* history: the weights of the last addEdge that returned, per pair
  rewritten,  \* history: an addEdge has given an edge other weights
  key,        \* the key argument of the last call on a PriorityQueue object
  priority    \* the priority argument of that call

\* the variables of the calls on the graph object
\* the arguments of the calls on a PriorityQueue object
queueArgs == <<key, priority>>

apiVars == <<op, target, weight, error, written, rewritten, queueArgs>>

vars == <<mode, graph, source, pc, pScores, nScores, inspected, pq,
          node, nodeScore, todo, order, result, apiVars>>

\* the state of the call as a record, and the variables set from a record
State ==
  [pScores |-> pScores, nScores |-> nScores, inspected |-> inspected,
   pq |-> pq, node |-> node, nodeScore |-> nodeScore, todo |-> todo,
   order |-> order]

Becomes(s) ==
  /\ pScores' = s.pScores
  /\ nScores' = s.nScores
  /\ inspected' = s.inspected
  /\ pq' = s.pq
  /\ node' = s.node
  /\ nodeScore' = s.nodeScore
  /\ todo' = s.todo
  /\ order' = s.order

NoResult == <<>>

\* no target argument, no weight argument
NoTarget == <<>>
NoWeight == <<>>

\* the graph of a new TransitiveTrustGraph()
EmptyGraph == [nodes |-> <<>>, out |-> <<>>]

\* no call is in progress
Init ==
  /\ mode = "none"
  /\ graph = EmptyGraph
  /\ source = 0
  /\ pc = "idle"
  /\ pScores = <<>>
  /\ nScores = <<>>
  /\ inspected = {}
  /\ pq = <<>>
  /\ node = 0
  /\ nodeScore = Zero
  /\ todo = <<>>
  /\ order = <<>>
  /\ result = NoResult
  /\ op = "none"
  /\ target = NoTarget
  /\ weight = NoWeight
  /\ error = "none"
  /\ written = <<>>
  /\ rewritten = FALSE
  /\ key = 0
  /\ priority = Zero

\* The caller has built a graph of at most ks (single weight) or kd (two
\* weights) edges, or one of the scenario graphs, with addEdge, and calls an
\* engine with a source of the graph.
CallWith(ks, kd) ==
  /\ pc = "idle"
  /\ mode' \in Modes
  /\ \/ IsGeneric(mode', graph', IF mode' = "single" THEN ks ELSE kd)
     \/ graph' \in Scenarios(mode')
  /\ source' \in NodesOf(graph')
  /\ pc' = "start"
  /\ UNCHANGED <<pScores, nScores, inspected, pq, node, nodeScore, todo,
                 order, result>>
  /\ UNCHANGED apiVars

Call == CallWith(MaxEdges, MaxDualEdges)

\* the hasNode(source) test, the maps and the queue set up before the loop
Begin ==
  /\ pc = "start"
  /\ hasNode(graph, source)
  /\ Becomes(initialize(graph, source))
  /\ pc' = "loop"
  /\ UNCHANGED <<mode, graph, source, result>>
  /\ UNCHANGED apiVars

\* while (!pq.isEmpty()) { node = pq.extractMax().key; ... }
ExtractMax ==
  /\ pc = "loop"
  /\ todo = <<>>
  /\ ~isEmpty(pq)
  /\ Becomes(extractStep(mode, graph, State))
  /\ UNCHANGED <<mode, graph, source, pc, result>>
  /\ UNCHANGED apiVars

\* forEachOutNeighbor(node, neighbor => ...), one neighbour
Relax ==
  /\ pc = "loop"
  /\ todo # <<>>
  /\ Becomes(relaxStep(mode, State))
  /\ UNCHANGED <<mode, graph, source, pc, result>>
  /\ UNCHANGED apiVars

\* the queue is empty: the loop ends and the call returns
Finish ==
  /\ pc = "loop"
  /\ todo = <<>>
  /\ isEmpty(pq)
  /\ pc' = "done"
  /\ result' = resultOf(mode, graph, source, State)
  /\ UNCHANGED <<mode, graph, source, pScores, nScores, inspected, pq,
                 node, nodeScore, todo, order>>
  /\ UNCHANGED apiVars

Next == Call \/ Begin \/ ExtractMax \/ Relax \/ Finish

Spec == Init /\ [][Next]_vars

\* a step of the engine
Step == Begin \/ ExtractMax \/ Relax \/ Finish

\* What a step of the engine does to pc, todo and order: every Step is an
\* Advance step and changes one of the three.
Advance ==
  \/ /\ pc = "start" /\ hasNode(graph, source)
     /\ pc' = "loop"
     /\ UNCHANGED <<todo, order>>
  \/ /\ pc = "loop" /\ todo # <<>>
     /\ todo' = Tail(todo)
     /\ UNCHANGED <<pc, order>>
  \/ /\ pc = "loop" /\ todo = <<>> /\ ~isEmpty(pq)
     /\ todo' = extractStep(mode, graph, State).todo
     /\ order' = extractStep(mode, graph, State).order
     /\ UNCHANGED pc
  \/ /\ pc = "loop" /\ todo = <<>> /\ isEmpty(pq)
     /\ pc' = "done"
     /\ UNCHANGED <<todo, order>>

\* The engine is sequential code: while it can take a step it takes one.
\* The fair specification enumerates the graphs of at most MaxFairEdges edges.
CallFair == CallWith(MaxFairEdges, MaxFairEdges)

NextFair == CallFair \/ Step

FairSpec == Init /\ [][NextFair]_vars /\ WF_<<pc, todo, order>>(Advance)

(***************************************************************************)
(* The same call with a queue that breaks ties between entries of equal    *)
(* maximum priority in any way: the entry extracted is any entry whose     *)
(* priority equals that of the root.                                       *)
(***************************************************************************)
\* positions (0-based) of the entries that have the maximum priority
MaxPositions(h) == {i \in 0..(Len(h) - 1) : At(h, i).priority = At(h, 0).priority}

ExtractAnyMax ==
  /\ pc = "loop"
  /\ todo = <<>>
  /\ ~isEmpty(pq)
  /\ \E i \in MaxPositions(pq) :
       Becomes(extractStep(mode, graph, [State EXCEPT !.pq = swap(pq, 0, i)]))
  /\ UNCHANGED <<mode, graph, source, pc, result>>
  /\ UNCHANGED apiVars

NextTie == Call \/ Begin \/ ExtractAnyMax \/ Relax \/ Finish

SpecTie == Init /\ [][NextTie]_vars

(***************************************************************************)
(* The methods of a TransitiveTrustGraph object, one action per call.  A   *)
(* call runs to its end in one step: it returns (pc = "returned") or       *)
(* throws (pc = "threw", error names the Error).  source and target keep   *)
(* the arguments of the last query.  Blank stands for a string that        *)
(* trim() leaves empty.                                                    *)
(***************************************************************************)
\* the bounds of the calls: nodes and edges of the graph, listed targets
MaxApiNodes == 2
MaxApiEdges == 2
MaxTargets == 2

Blank == 0
\* one name more than the graph has room for: some name is never a node
Names == 1..(MaxApiNodes + 1)

\* the weights passed to addEdge, 1.5 and -0.1 among them: the weight of the
\* one-weight class, the positive and the negative weight of the others
WeightArgs == {Rat(-1, 10), Rat(1, 2), One, Rat(3, 2)}
PositiveArgs == {Rat(1, 2), One, Rat(3, 2)}
NegativeArgs == {Rat(-1, 10), Rat(1, 2)}

\* the target lists passed to computeTrustScores(source, targets)
TargetLists == UNION {[1..k -> Names] : k \in 0..MaxTargets}

\* mutant of invalidWeight: the test weight < 0 left out
invalidWeightAbove(w) == RLt(One, w)

\* weight < 0 || weight > 1
invalidWeight(w) == RLt(w, Zero) \/ RLt(One, w)

\* this.graph.hasEdge(source, target)
hasEdge(g, s, t) == \E i \in 1..Len(g.out[s]) : g.out[s][i].target = t

\* if (!this.graph.hasNode(node)) this.graph.addNode(node)
addNode(g, n) ==
  IF hasNode(g, n) THEN g
  ELSE [nodes |-> Append(g.nodes, n),
        out |-> [x \in NodesOf(g) \cup {n} |-> IF x = n THEN <<>> ELSE g.out[x]]]

\* mutant of setEdgeAttributes: the edge keeps the weights it has
keepEdgeAttributes(g, s, t, pw, nw) == g

\* setEdgeAttribute(source, target, ...) for the weights of an existing edge
setEdgeAttributes(g, s, t, pw, nw) ==
  [g EXCEPT !.out[s] =
     [i \in 1..Len(g.out[s]) |->
        IF g.out[s][i].target = t THEN Edge(t, pw, nw) ELSE g.out[s][i]]]

\* this.graph.addEdge(source, target, {positiveWeight, negativeWeight})
addNewEdge(g, s, t, pw, nw) == [g EXCEPT !.out[s] = Append(@, Edge(t, pw, nw))]

\* addEdge of the class m: the graph after the call and the error thrown.
\* The one-weight class has no negativeWeight parameter (nw is 0).
addEdge(m, g, s, t, pw, nw) ==
  IF s = Blank THEN [graph |-> g, error |-> "SourceEmpty"]
  ELSE IF t = Blank THEN [graph |-> g, error |-> "TargetEmpty"]
  ELSE IF invalidWeight(pw)
    THEN [graph |-> g,
          error |-> IF m = "single" THEN "InvalidWeight" ELSE "InvalidPositiveWeight"]
  ELSE IF m # "single" /\ invalidWeight(nw)
    THEN [graph |-> g, error |-> "InvalidNegativeWeight"]
  ELSE LET g2 == addNode(addNode(g, s), t)
       IN  [graph |-> IF hasEdge(g2, s, t)
                      THEN setEdgeAttributes(g2, s, t, pw, nw)
                      ELSE addNewEdge(g2, s, t, pw, nw),
            error |-> "none"]

\* what a query does: it returns value or throws error
Returns(v) == [error |-> "none", value |-> v]
Throws(e) == [error |-> e, value |-> NoResult]

\* computeTrustScore(source, target) of the one-weight class
computeTrustScore(g, s, t) ==
  IF ~hasNode(g, s) THEN Throws("SourceNotFound")
  ELSE IF ~hasNode(g, t) THEN Throws("TargetNotFound")
  ELSE Returns(resultOf("single", g, s, runLoop("single", g, initialize(g, s)))[t])

\* mutant of computeTrustScoresTarget: the target is tested before the source
computeTrustScoresTargetFirst(g, s, t) ==
  IF ~hasNode(g, t) THEN Throws("TargetNotFound")
  ELSE IF ~hasNode(g, s) THEN Throws("SourceNotFound")
  ELSE Returns(resultOf("dualTarget", g, s,
                        runLoop("dualTarget", g, initialize(g, s)))[t])

\* computeTrustScores(source, target) of the two-weight class with one target
computeTrustScoresTarget(g, s, t) ==
  IF ~hasNode(g, s) THEN Throws("SourceNotFound")
  ELSE IF ~hasNode(g, t) THEN Throws("TargetNotFound")
  ELSE Returns(resultOf("dualTarget", g, s,
                        runLoop("dualTarget", g, initialize(g, s)))[t])

\* computeScores(source): the results map of every node but the source
computeScores(g, s) ==
  IF ~hasNode(g, s) THEN Throws("SourceNotFound")
  ELSE Returns(resultOf("dual", g, s, runLoop("dual", g, initialize(g, s))))

\* mutant of computeTrustScores: a listed target that is no node is skipped
computeTrustScoresSkip(g, s, targets) ==
  LET allScores == computeScores(g, s)
      listed == {targets[i] : i \in 1..Len(targets)}
  IN  IF allScores.error # "none" THEN allScores
      ELSE IF Len(targets) = 0
        THEN Returns([x \in DOMAIN allScores.value \ {s} |-> allScores.value[x]])
      ELSE Returns([x \in listed \cap DOMAIN allScores.value |-> allScores.value[x]])

\* computeTrustScores(source, targets) of the two-weight class with a list
computeTrustScores(g, s, targets) ==
  LET allScores == computeScores(g, s)
      listed == {targets[i] : i \in 1..Len(targets)}
  IN  IF allScores.error # "none" THEN allScores
      ELSE IF Len(targets) = 0
        THEN Returns([x \in DOMAIN allScores.value \ {s} |-> allScores.value[x]])
      ELSE IF \E x \in listed : ~hasNode(g, x) THEN Throws("TargetNotFound")
      ELSE Returns([x \in listed \cap DOMAIN allScores.value |-> allScores.value[x]])

\* the query method of the class m
query(m, g, s, t) ==
  CASE m = "single" -> computeTrustScore(g, s, t)
    [] m = "dual" -> computeTrustScores(g, s, t)
    [] OTHER -> computeTrustScoresTarget(g, s, t)

RECURSIVE edgeCount(_, _)
edgeCount(g, i) ==
  IF i > Len(g.nodes) THEN 0 ELSE Len(g.out[g.nodes[i]]) + edgeCount(g, i + 1)

\* the engine's variables, which no call on the object keeps
engineVars == <<pScores, nScores, inspected, pq, node, nodeScore, todo, order>>

\* new TransitiveTrustGraph() of one of the three classes
InitApi ==
  /\ mode \in Modes
  /\ graph = EmptyGraph
  /\ source = 0
  /\ pc = "idle"
  /\ pScores = <<>>
  /\ nScores = <<>>
  /\ inspected = {}
  /\ pq = <<>>
  /\ node = 0
  /\ nodeScore = Zero
  /\ todo = <<>>
  /\ order = <<>>
  /\ result = NoResult
  /\ op = "none"
  /\ target = NoTarget
  /\ weight = NoWeight
  /\ error = "none"
  /\ written = <<>>
  /\ rewritten = FALSE
  /\ key = 0
  /\ priority = Zero

\* addNode(n), while the graph has room for the node
AddNodeCall(n) ==
  /\ Len(addNode(graph, n).nodes) <= MaxApiNodes
  /\ op' = "addNode"
  /\ source' = 0
  /\ target' = NoTarget
  /\ weight' = NoWeight
  /\ IF n = Blank
     THEN /\ pc' = "threw"
          /\ error' = "NodeEmpty"
          /\ UNCHANGED graph
     ELSE /\ pc' = "returned"
          /\ error' = "none"
          /\ graph' = addNode(graph, n)
  /\ result' = NoResult
  /\ UNCHANGED <<mode, engineVars, written, rewritten, queueArgs>>

AddNode == \E n \in Names \cup {Blank} : AddNodeCall(n)

\* addEdge(s, t, pw, nw), while the graph has room for the nodes and the edge
AddEdgeCall(s, t, pw, nw) ==
  LET r == addEdge(mode, graph, s, t, pw, nw)
  IN  /\ Len(r.graph.nodes) <= MaxApiNodes
      /\ edgeCount(r.graph, 1) <= MaxApiEdges
      /\ op' = "addEdge"
      /\ source' = 0
      /\ target' = NoTarget
      /\ weight' = <<pw, nw>>
      /\ graph' = r.graph
      /\ error' = r.error
      /\ pc' = IF r.error = "none" THEN "returned" ELSE "threw"
      /\ result' = NoResult
      /\ written' = IF r.error = "none"
                    THEN [p \in DOMAIN written \cup {<<s, t>>} |->
                            IF p = <<s, t>> THEN <<pw, nw>> ELSE written[p]]
                    ELSE written
      /\ rewritten' = (\/ rewritten
                       \/ /\ r.error = "none"
                          /\ <<s, t>> \in DOMAIN written
                          /\ written[<<s, t>>] # <<pw, nw>>)
      /\ UNCHANGED <<mode, engineVars, queueArgs>>

AddEdge ==
  \/ \E s, t \in Names :
       \E pw \in (IF mode = "single" THEN WeightArgs ELSE PositiveArgs) :
         \E nw \in (IF mode = "single" THEN {Zero} ELSE NegativeArgs) :
           AddEdgeCall(s, t, pw, nw)
  \/ \E s, t \in Names \cup {Blank} :
       /\ s = Blank \/ t = Blank
       /\ AddEdgeCall(s, t, One, Zero)

\* mutant of QueryCall: the query adds its source to the graph
QueryCallAdding(s, t) ==
  LET r == query(mode, graph, s, t)
  IN  /\ op' = IF mode = "single" THEN "computeTrustScore" ELSE "computeTrustScores"
      /\ source' = s
      /\ target' = t
      /\ weight' = NoWeight
      /\ error' = r.error
      /\ pc' = IF r.error = "none" THEN "returned" ELSE "threw"
      /\ result' = r.value
      /\ graph' = addNode(graph, s)
      /\ UNCHANGED <<mode, engineVars, written, rewritten, queueArgs>>

\* computeTrustScore(s, t) or computeTrustScores(s, t)
QueryCall(s, t) ==
  LET r == query(mode, graph, s, t)
  IN  /\ op' = IF mode = "single" THEN "computeTrustScore" ELSE "computeTrustScores"
      /\ source' = s
      /\ target' = t
      /\ weight' = NoWeight
      /\ error' = r.error
      /\ pc' = IF r.error = "none" THEN "returned" ELSE "threw"
      /\ result' = r.value
      /\ UNCHANGED <<mode, graph, engineVars, written, rewritten, queueArgs>>

Query ==
  \E s \in Names :
    \E t \in (IF mode = "dual" THEN TargetLists ELSE Names) :
      QueryCall(s, t)

NextApi == AddNode \/ AddEdge \/ Query

ApiSpec == InitApi /\ [][NextApi]_vars

(***************************************************************************)
(* The methods of a PriorityQueue object, one action per call.  The        *)
(* engines insert every key once, so insert is called with keys the queue  *)
(* does not hold.  result keeps the entry extractMax returned.             *)
(***************************************************************************)
\* the bound of the queue: number of keys
MaxQueue == 4

QueueKeys == 1..MaxQueue

\* the priorities inserted and set: scores and net scores
Priorities == {Rat(-1, 2), Zero, Rat(1, 2), One}

\* extractMax() returns null
Null == <<>>

keysOf(h) == {h[i].key : i \in 1..Len(h)}

\* the variables no call on the queue changes
notQueueVars ==
  <<mode, graph, source, pc, pScores, nScores, inspected, node, nodeScore,
    todo, order, target, weight, error, written, rewritten>>

Insert ==
  \E k \in QueueKeys \ keysOf(pq) :
    \E p \in Priorities :
      /\ pq' = insert(pq, k, p)
      /\ op' = "insert"
      /\ key' = k
      /\ priority' = p
      /\ result' = NoResult
      /\ UNCHANGED notQueueVars

ExtractMaxCall ==
  /\ pq' = extractMaxHeap(pq)
  /\ result' = IF Len(pq) = 0 THEN Null ELSE extractMaxEntry(pq)
  /\ op' = "extractMax"
  /\ key' = 0
  /\ priority' = Zero
  /\ UNCHANGED notQueueVars

UpdatePriority ==
  \E k \in QueueKeys :
    \E p \in Priorities :
      /\ pq' = updatePriority(pq, k, p)
      /\ op' = "updatePriority"
      /\ key' = k
      /\ priority' = p
      /\ result' = NoResult
      /\ UNCHANGED notQueueVars

NextQueue == Insert \/ ExtractMaxCall \/ UpdatePriority

\* new PriorityQueue() and any sequence of calls
QueueSpec == Init /\ [][NextQueue]_vars

(***************************************************************************)
(* Properties.                                                             *)
(***************************************************************************)
Started == pc \in {"loop", "done"}
Done == pc = "done"

\* C1: on the single-weight reference graph A->B=0.6, B->C=0.4, C->D=0.5,
\* A->C=0.5, computeTrustScore from A returns 0.6 for B, 0.54 for C and
\* 0.27 for D.
C1_ReferenceScores ==
  (Done /\ mode = "single" /\ graph = ReferenceSingle /\ source = A)
    => /\ result[B] = Rat(6, 10)
       /\ result[C] = Rat(54, 100)
       /\ result[D] = Rat(27, 100)

C1_Witness ==
  /\ Done /\ mode = "single" /\ graph = ReferenceSingle /\ source = A
  /\ Len(order) = 4

\* C2: on the two-weight reference graph computeTrustScores('A', ['D'])
\* returns positiveScore 0.2, negativeScore 0.12 and netScore 0.08 for D;
\* B and C are extracted with the same net score 0.4.
C2_ReferenceDualScores ==
  (Done /\ mode = "dual" /\ graph = ReferenceDual /\ source = A)
    => /\ result[D] = [positiveScore |-> Rat(2, 10),
                       negativeScore |-> Rat(12, 100),
                       netScore |-> Rat(8, 100)]
       /\ {order[2].key, order[3].key} = {B, C}
       /\ order[2].score = Rat(4, 10)
       /\ order[3].score = Rat(4, 10)

C2_Witness ==
  /\ Done /\ mode = "dual" /\ graph = ReferenceDual /\ source = A
  /\ D \in DOMAIN result

(***************************************************************************)
(* The maximum over the directed paths from source to a node of the        *)
(* product of the positive weights on the path (1 for the empty path at    *)
(* the source, 0 where there is no path).  Weights are at most 1, so the   *)
(* maximum is reached on a path of fewer than |nodes| edges.               *)
(***************************************************************************)
RMaxSet(S) == CHOOSE x \in S : \A y \in S : RLe(y, x)

EdgesInto(g, v) ==
  {[from |-> u, edge |-> g.out[u][i]] :
     <<u, i>> \in {<<u, i>> \in NodesOf(g) \X (1..Len(g.nodes)) :
                     i <= Len(g.out[u]) /\ g.out[u][i].target = v}}

RECURSIVE BestWithin(_, _, _)
BestWithin(g, src, k) ==
  IF k = 0 THEN [x \in NodesOf(g) |-> IF x = src THEN One ELSE Zero]
  ELSE LET b == BestWithin(g, src, k - 1)
       IN  [v \in NodesOf(g) |->
              RMaxSet({b[v]} \cup {RMul(b[ie.from], ie.edge.positiveWeight) :
                                     ie \in EdgesInto(g, v)})]

MaxProduct(g, src) == BestWithin(g, src, Len(g.nodes) - 1)

\* every negative weight of the graph is 0
NoNegative(g) ==
  \A u \in NodesOf(g) : \A i \in 1..Len(g.out[u]) : g.out[u][i].negativeWeight = Zero

\* no node has edges from two nodes other than itself
OneInEdge(g) ==
  \A v \in NodesOf(g) :
    Cardinality({ie.from : ie \in EdgesInto(g, v)} \ {v}) <= 1

\* C3 as stated: after full propagation P(target) equals the maximum-product
\* path value, for every graph, source and target.
C3_MaxProductEquality ==
  Done => \A t \in NodesOf(graph) : pScores[t] = MaxProduct(graph, source)[t]

\* C3 amended: on a graph whose negative weights are all 0, P(target) after
\* full propagation is at least the maximum-product path value, and equals
\* it when no node has edges from two other nodes.
C3_MaxProductLowerBound ==
  (Done /\ NoNegative(graph))
    => \A t \in NodesOf(graph) :
         /\ RLe(MaxProduct(graph, source)[t], pScores[t])
         /\ OneInEdge(graph) => pScores[t] = MaxProduct(graph, source)[t]

C3_Witness ==
  /\ Done /\ NoNegative(graph)
  /\ \E t \in NodesOf(graph) :
       /\ RLt(MaxProduct(graph, source)[t], pScores[t])
       /\ RLt(Zero, MaxProduct(graph, source)[t])
  /\ ~OneInEdge(graph)

(***************************************************************************)
(* The run of the program itself (the queue as implemented) on the graph   *)
(* and source of the current call.                                         *)
(***************************************************************************)
Reference == runLoop(mode, graph, initialize(graph, source))

\* two entries of equal priority were in the queue and the one extracted is
\* not the one the implemented queue extracts
OtherTieBreak ==
  \E i \in 1..Len(order) :
    /\ i <= Len(Reference.order)
    /\ order[i].key # Reference.order[i].key
    /\ RLt(Zero, order[i].score)

\* C4: in the two-weight engines the final (P, N) of every node is the same
\* whichever entry of maximum priority the queue extracts.
C4_DualTieBreakIndependent ==
  (Done /\ mode \in {"dual", "dualTarget"})
    => /\ pScores = Reference.pScores
       /\ nScores = Reference.nScores

\* C5: in the single-weight engine the final score of every node is the
\* same whichever entry of maximum priority the queue extracts.
C5_SingleTieBreakIndependent ==
  (Done /\ mode = "single")
    => /\ pScores = Reference.pScores
       /\ result = resultOf(mode, graph, source, Reference)

C5_Witness ==
  /\ Done /\ mode = "single"
  /\ OtherTieBreak
  /\ \E x \in NodesOf(graph) : RLt(Zero, pScores[x]) /\ RLt(pScores[x], One)

\* max(P(x) - N(x), 0)
Effective(x) == RMax(RSub(pScores[x], nScores[x]), Zero)

InUnit(r) == RLe(Zero, r) /\ RLe(r, One)

\* C6: in every state of a propagation every node has 0 <= P <= 1,
\* 0 <= N <= 1 and E = max(P - N, 0) <= 1.
C6_Bounded ==
  Started => \A x \in NodesOf(graph) :
               /\ InUnit(pScores[x])
               /\ InUnit(nScores[x])
               /\ RLe(Effective(x), One)

C6_Witness ==
  /\ pc = "loop"
  /\ \E x \in NodesOf(graph) :
       /\ RLt(Zero, nScores[x]) /\ RLt(nScores[x], pScores[x])
       /\ RLt(pScores[x], One)
       /\ x \in inspected

\* C7: no step of a propagation lowers P(x) or N(x) of any node x.
C7_Monotone ==
  [][pc = "loop" => \A x \in NodesOf(graph) :
                      /\ RLe(pScores[x], pScores'[x])
                      /\ RLe(nScores[x], nScores'[x])]_vars

\* a node whose positive score lies above the score of the node being
\* relaxed from is about to be visited along an edge of positive weight
C7_Witness ==
  /\ pc = "loop"
  /\ todo # <<>>
  /\ Head(todo).target \notin inspected
  /\ RLt(nodeScore, pScores[Head(todo).target])
  /\ RLt(nScores[Head(todo).target], nodeScore)
  /\ RLt(Zero, Head(todo).positiveWeight)
  /\ RLt(Zero, Head(todo).negativeWeight)

\* C8: in every state of a propagation P(source) = 1 and N(source) = 0,
\* whatever edges lead into the source, and the source is the first node
\* extracted.
C8_SourceIdentity ==
  Started => /\ pScores[source] = One
             /\ nScores[source] = Zero
             /\ order # <<>> => order[1].key = source
             /\ Done => order # <<>>

\* a settled node of positive score has an edge of positive weights into
\* the source, and the source is not the first node inserted
C8_Witness ==
  /\ Done
  /\ graph.nodes[1] # source
  /\ \E i \in 2..Len(order) :
       /\ RLt(Zero, order[i].score)
       /\ \E k \in 1..Len(graph.out[order[i].key]) :
            LET e == graph.out[order[i].key][k]
            IN  /\ e.target = source
                /\ RLt(Zero, e.positiveWeight)
                /\ RLt(Zero, e.negativeWeight)

\* no key was returned by extractMax twice
ExtractedOnce ==
  \A i, j \in 1..Len(order) : i # j => order[i].key # order[j].key

\* C9: every node is extracted and marked inspected at most once, and the
\* P and N of an inspected node are never written again.
C9_SettleOnce ==
  /\ [](ExtractedOnce /\ \A i \in 1..Len(order) : order[i].fresh)
  /\ [][pc = "loop" => \A x \in inspected :
                         /\ pScores'[x] = pScores[x]
                         /\ nScores'[x] = nScores[x]]_vars

\* a node extracted later, with a score above the N of a node settled
\* before it, has an edge of positive negative weight to that node
C9_Witness ==
  /\ Done
  /\ \E i, j \in 1..Len(order) :
       /\ i < j
       /\ RLt(nScores[order[i].key], order[j].score)
       /\ \E k \in 1..Len(graph.out[order[j].key]) :
            LET e == graph.out[order[j].key][k]
            IN  e.target = order[i].key /\ RLt(Zero, e.negativeWeight)

\* C10: the loop reaches the empty queue; every iteration removes exactly
\* one queue entry and settles exactly one node, so the loop ends after
\* exactly |nodes| iterations.
C10_Terminates ==
  /\ (pc = "start") ~> Done
  /\ [](Done => /\ isEmpty(pq)
                /\ Len(order) = Len(graph.nodes)
                /\ inspected = NodesOf(graph))
  /\ [][(pc = "loop" /\ todo = <<>> /\ pc' = "loop")
          => /\ Len(pq') = Len(pq) - 1
             /\ Cardinality(inspected') = Cardinality(inspected) + 1
             /\ Len(order') = Len(order) + 1]_vars

HasEdge(u, v) ==
  \E k \in 1..Len(graph.out[u]) :
    graph.out[u][k].target = v /\ RLt(Zero, graph.out[u][k].positiveWeight)

\* the call returned on a graph with a cycle through two nodes and a self-loop
C10_Witness ==
  /\ Done
  /\ \E u, v \in NodesOf(graph) : u # v /\ HasEdge(u, v) /\ HasEdge(v, u)
  /\ \E u \in NodesOf(graph) : HasEdge(u, u) /\ RLt(Zero, pScores[u])

(***************************************************************************)
(* Properties of the calls on the graph object.                            *)
(***************************************************************************)
IsQuery == op \in {"computeTrustScore", "computeTrustScores"}

\* the nodes a target argument names
Listed(t) == IF mode = "dual" THEN {t[i] : i \in 1..Len(t)} ELSE {t}

\* C11: a query whose source is not a node of the graph throws the
\* source-not-found error and returns no scores, whatever the target
\* argument, also when a target is no node of the graph either.
C11_SourceNotFound ==
  (IsQuery /\ ~hasNode(graph, source))
    => /\ pc = "threw"
       /\ error = "SourceNotFound"
       /\ result = NoResult

\* the source and a different target are both absent from a graph with a node
C11_Witness ==
  /\ IsQuery /\ ~hasNode(graph, source)
  /\ graph.nodes # <<>>
  /\ \E x \in Listed(target) : x # source /\ ~hasNode(graph, x)
  /\ error = "SourceNotFound"

\* C12: computeTrustScores(source, targets) with a source of the graph and
\* a list that has a target outside the graph throws the target-not-found
\* error and returns nothing, also when other listed targets exist.
C12_TargetNotFound ==
  (/\ op = "computeTrustScores" /\ mode = "dual"
   /\ hasNode(graph, source)
   /\ \E x \in Listed(target) : ~hasNode(graph, x))
    => /\ pc = "threw"
       /\ error = "TargetNotFound"
       /\ result = NoResult

\* the first listed target is a node the source has an edge to, the second
\* is no node
C12_Witness ==
  /\ op = "computeTrustScores" /\ mode = "dual"
  /\ hasNode(graph, source)
  /\ Len(target) = 2
  /\ hasNode(graph, target[1]) /\ target[1] # source
  /\ hasEdge(graph, source, target[1])
  /\ ~hasNode(graph, target[2])
  /\ pc = "threw"

\* the weight lies outside [0, 1]
OutOfRange(w) == w.n < 0 \/ w.n > w.d

C14_LastWriteWins ==
  /\ \A u \in NodesOf(graph) : \A i, j \in 1..Len(graph.out[u]) :
       i # j => graph.out[u][i].target # graph.out[u][j].target
  /\ \A p \in DOMAIN written :
       /\ hasNode(graph, p[1])
       /\ \E i \in 1..Len(graph.out[p[1]]) :
            graph.out[p[1]][i] = Edge(p[2], written[p][1], written[p][2])
  /\ \A u \in NodesOf(graph) : \A i \in 1..Len(graph.out[u]) :
       <<u, graph.out[u][i].target>> \in DOMAIN written

\* an addEdge has returned after giving an edge of a two-edge graph other
\* weights
C14_Witness ==
  /\ op = "addEdge" /\ pc = "returned"
  /\ rewritten
  /\ edgeCount(graph, 1) = 2

\* C17: computeTrustScores(source) with no or an empty target list returns
\* a mapping whose keys are the nodes of the graph other than the source;
\* with a list of existing targets its keys are the listed targets other
\* than the source.
C17_ResultKeys ==
  (/\ op = "computeTrustScores" /\ mode = "dual"
   /\ hasNode(graph, source)
   /\ \A x \in Listed(target) : hasNode(graph, x))
    => /\ pc = "returned"
       /\ DOMAIN result = IF target = <<>> THEN NodesOf(graph) \ {source}
                          ELSE Listed(target) \ {source}

\* the source and another node are listed
C17_Witness ==
  /\ op = "computeTrustScores" /\ mode = "dual"
  /\ pc = "returned"
  /\ Len(target) = 2
  /\ target[1] = source
  /\ target[2] # source
  /\ hasEdge(graph, target[2], source)


(***************************************************************************)
(* Properties of the values the queries return.                            *)
(***************************************************************************)
Triple(p, n, e) == [positiveScore |-> p, negativeScore |-> n, netScore |-> e]

\* C15: no score of the final output is negative: the number returned by
\* computeTrustScore and the positiveScore, negativeScore and netScore
\* returned by computeTrustScores are all >= 0.
C15_NonNegativeOutput ==
  Done => \A t \in DOMAIN result :
            IF mode = "single" THEN RLe(Zero, result[t])
            ELSE /\ RLe(Zero, result[t].positiveScore)
                 /\ RLe(Zero, result[t].negativeScore)
                 /\ RLe(Zero, result[t].netScore)

\* C16: on the graph of the second README example computeTrustScores('A')
\* returns B: (0.8, 0.1, 0.7), C: (0.74, 0.17, 0.57) and
\* D: (0.518, 0.219, 0.299).
C16_ReadmeScores ==
  (Done /\ mode = "dual" /\ graph = ReadmeDual /\ source = A)
    => /\ result[B] = Triple(Rat(8, 10), Rat(1, 10), Rat(7, 10))
       /\ result[C] = Triple(Rat(74, 100), Rat(17, 100), Rat(57, 100))
       /\ result[D] = Triple(Rat(518, 1000), Rat(219, 1000), Rat(299, 1000))

\* C18: for every two-weight graph, source and target other than the
\* source, the triple the one-target computeTrustScores(source, target)
\* returns equals the entry of the target in the mapping
\* computeTrustScores(source, [target]) returns.
C18_ViewsAgree ==
  (Done /\ mode = "dual")
    => \A t \in NodesOf(graph) \ {source} :
         computeTrustScoresTarget(graph, source, t).value = result[t]

\* C19: on a graph whose negative weights are all 0 the two-weight engines
\* return negativeScore = 0 and positiveScore = netScore = the score
\* computeTrustScore returns on the graph with weight = positiveWeight.
C19_SingleIsDualWithoutNegative ==
  (Done /\ mode \in {"dual", "dualTarget"} /\ NoNegative(graph))
    => \A t \in DOMAIN result :
         /\ result[t].negativeScore = Zero
         /\ result[t].netScore = result[t].positiveScore
         /\ result[t].positiveScore = computeTrustScore(graph, source, t).value

\* a node with edges from two other nodes ends with a positive score below 1
C19_Witness ==
  /\ Done /\ mode \in {"dual", "dualTarget"} /\ NoNegative(graph)
  /\ ~OneInEdge(graph)
  /\ \E t \in DOMAIN result :
       /\ RLt(Zero, result[t].positiveScore)
       /\ RLt(result[t].positiveScore, One)
       /\ Cardinality({ie.from : ie \in EdgesInto(graph, t)} \ {t}) = 2

\* the nodes a directed path leads to from the nodes S
RECURSIVE ReachFrom(_, _)
ReachFrom(g, S) ==
  LET T == S \cup {g.out[u][i].target :
                     <<u, i>> \in {<<u, i>> \in S \X (1..Len(g.nodes)) :
                                     i <= Len(g.out[u])}}
  IN  IF T = S THEN S ELSE ReachFrom(g, T)

NoEdges(g) == \A u \in NodesOf(g) : g.out[u] = <<>>

\* the score the call reports for a node
Reported(t) ==
  IF mode = "single" THEN result[t]
  ELSE RMax(result[t].positiveScore, RMax(result[t].negativeScore, result[t].netScore))

\* C20: a node with no directed path from the source ends the propagation
\* with P = 0 and N = 0 and is reported with score 0; in a graph with no
\* edges this is every node other than the source.
C20_UnreachableZero ==
  Done => /\ \A x \in NodesOf(graph) \ ReachFrom(graph, {source}) :
               /\ pScores[x] = Zero
               /\ nScores[x] = Zero
               /\ x \in DOMAIN result => Reported(x) = Zero
          /\ NoEdges(graph) => ReachFrom(graph, {source}) = {source}

\* a node without a path from the source has an edge of positive weights
\* to a node that has scores
C20_Witness ==
  /\ Done
  /\ \E x \in NodesOf(graph) \ ReachFrom(graph, {source}) :
       \E k \in 1..Len(graph.out[x]) :
         LET e == graph.out[x][k]
         IN  /\ RLt(Zero, e.positiveWeight)
             /\ RLt(Zero, e.negativeWeight)
             /\ e.target \notin {x, source}
             /\ RLt(Zero, pScores[e.target])


(***************************************************************************)
(* Properties of the PriorityQueue.                                        *)
(***************************************************************************)
\* the (key, priority) pairs of a queue
entriesOf(h) == {h[i] : i \in 1..Len(h)}

\* C25: after any sequence of insert (distinct keys), extractMax and
\* updatePriority calls, extractMax on a non-empty queue returns an entry
\* whose priority is >= that of every entry, removes exactly that entry and
\* keeps every other (key, priority) pair; on an empty queue it returns
\* null and the queue stays empty.
C25_ExtractMax ==
  [][op' = "extractMax"
       => IF pq = <<>>
          THEN result' = Null /\ pq' = <<>>
          ELSE /\ result' \in entriesOf(pq)
               /\ \A e \in entriesOf(pq) : RLe(e.priority, result'.priority)
               /\ entriesOf(pq') = entriesOf(pq) \ {result'}
               /\ Len(pq') = Len(pq) - 1]_vars

\* extractMax has returned the only entry of the highest priority from a
\* full queue whose last entry had that priority
C25_Witness ==
  /\ op = "extractMax"
  /\ Len(pq) = MaxQueue - 1
  /\ \A e \in entriesOf(pq) : RLt(e.priority, result.priority)
  /\ \E e, f \in entriesOf(pq) : RLt(e.priority, f.priority)

\* the priority of key k in the queue h
priorityOf(h, k) == (CHOOSE e \in entriesOf(h) : e.key = k).priority

\* C26: updatePriority(key, p) leaves the queue as it is when key is not in
\* the queue; when key is in the queue it sets the priority of key to p and
\* changes neither the set of keys nor the priority of any other key.
C26_UpdatePriorityFrame ==
  [][op' = "updatePriority"
       => IF key' \notin keysOf(pq)
          THEN pq' = pq
          ELSE /\ Len(pq') = Len(pq)
               /\ keysOf(pq') = keysOf(pq)
               /\ priorityOf(pq', key') = priority'
               /\ \A k \in keysOf(pq) \ {key'} :
                    priorityOf(pq', k) = priorityOf(pq, k)]_vars

\* updatePriority has moved an entry of a full queue: the root was lowered
\* below the others or the last entry raised above them
C26_Witness ==
  /\ op = "updatePriority"
  /\ Len(pq) = MaxQueue
  /\ key \in keysOf(pq)
  /\ \/ /\ pq[Len(pq)].key = key
        /\ \A k \in keysOf(pq) \ {key} : RLt(priority, priorityOf(pq, k))
     \/ /\ pq[1].key = key
        /\ \A k \in keysOf(pq) \ {key} : RLt(priorityOf(pq, k), priority)


(***************************************************************************)
(* Properties of the propagation loop.                                     *)
(***************************************************************************)
Dual == mode \in {"dual", "dualTarget"}

\* C21 as stated: in the two-weight engines the queue priority of every
\* unsettled node equals its effective score E = max(P - N, 0), from the
\* insertion on and after every update.
C21_PriorityIsEffective ==
  (pc = "loop" /\ Dual)
    => \A i \in 1..Len(pq) : pq[i].priority = Effective(pq[i].key)

\* C21 amended: the queue priority of every unsettled node equals its net
\* score P - N, which is its effective score whenever P >= N.
C21_PriorityIsNet ==
  (pc = "loop" /\ Dual)
    => \A i \in 1..Len(pq) :
         /\ pq[i].priority = RSub(pScores[pq[i].key], nScores[pq[i].key])
         /\ RLe(nScores[pq[i].key], pScores[pq[i].key])
              => pq[i].priority = Effective(pq[i].key)

\* an update has left a node in the queue with a negative priority, another
\* with a positive one
C21_Witness ==
  /\ pc = "loop" /\ Dual
  /\ \E i, j \in 1..Len(pq) :
       /\ RLt(pq[i].priority, Zero)
       /\ RLt(Zero, pq[j].priority) /\ RLt(Zero, nScores[pq[j].key])

\* C22: when u is extracted with effective score Eu, every out-neighbour v
\* not yet settled gets P(v) + (Eu - P(v)) * positiveWeight if Eu > P(v)
\* and, whatever the P test and the net score of v,
\* N(v) + (Eu - N(v)) * negativeWeight if Eu > N(v).
C22_UpdateRule ==
  [][(/\ pc = "loop" /\ Dual
      /\ todo # <<>>
      /\ Head(todo).target \notin inspected)
       => LET e == Head(todo)
              v == e.target
              Eu == Effective(node)
          IN  /\ pScores'[v] =
                   IF RLt(pScores[v], Eu)
                   THEN RAdd(pScores[v], RMul(RSub(Eu, pScores[v]), e.positiveWeight))
                   ELSE pScores[v]
              /\ nScores'[v] =
                   IF RLt(nScores[v], Eu)
                   THEN RAdd(nScores[v], RMul(RSub(Eu, nScores[v]), e.negativeWeight))
                   ELSE nScores[v]]_vars

\* C23: whenever a step changes P(v) or N(v) of a node, the new value is at
\* most the effective score Eu = max(P(u) - N(u), 0) of the node u the
\* update propagates from.
C23_NoRaiseAboveEu ==
  [][pc = "loop"
       => \A x \in NodesOf(graph) :
            /\ pScores'[x] # pScores[x] => RLe(pScores'[x], Effective(node))
            /\ nScores'[x] # nScores[x] => RLe(nScores'[x], Effective(node))]_vars

\* an edge already visited from a node of effective score below 1 has
\* raised both scores of its target, the positive one up to that score
C23_Witness ==
  /\ pc = "loop"
  /\ RLt(Zero, Effective(node)) /\ RLt(Effective(node), One)
  /\ \E k \in 1..(Len(graph.out[node]) - Len(todo)) :
       LET x == graph.out[node][k].target
       IN  /\ x \notin inspected
           /\ pScores[x] = Effective(node)
           /\ RLt(Zero, nScores[x])

\* C24: the effective scores of the nodes at their extraction form a
\* non-increasing sequence, in all three engines; a node extracted later
\* has no effective score above the P of a node extracted earlier.
C24_GreedyOrder ==
  \A i, j \in 1..Len(order) :
    i < j => /\ RLe(order[j].score, order[i].score)
             /\ RLe(order[j].score, pScores[order[i].key])

\* three nodes were extracted with decreasing positive scores, the third
\* after its negative score was raised
C24_Witness ==
  /\ Done /\ Dual
  /\ Len(order) >= 3
  /\ RLt(order[2].score, order[1].score)
  /\ RLt(order[3].score, order[2].score)
  /\ RLt(Zero, order[3].score)
  /\ RLt(Zero, nScores[order[3].key])

\* C27: at the head of every loop iteration the keys of the queue are the
\* nodes not yet inspected, each key once, and no extracted key was
\* already inspected.
C27_QueueTracksUnsettled ==
  (pc = "loop" /\ todo = <<>>)
    => /\ keysOf(pq) = NodesOf(graph) \ inspected
       /\ Cardinality(keysOf(pq)) = Len(pq)
       /\ \A i \in 1..Len(order) : order[i].fresh

\* two nodes are inspected, two are queued, one of them with a new priority
C27_Witness ==
  /\ pc = "loop" /\ todo = <<>>
  /\ Cardinality(inspected) = 2
  /\ Len(pq) = 2
  /\ \E i \in 1..Len(pq) : RLt(Zero, pq[i].priority) /\ RLt(pq[i].priority, One)

\* C29: in the one-weight engine the score returned for a target is at
\* least the maximum over the directed paths from the source to the target
\* of the product of the weights on the path, and 0 when there is no path.
C29_SingleLowerBound ==
  (Done /\ mode = "single")
    => \A t \in NodesOf(graph) :
         /\ RLe(MaxProduct(graph, source)[t], result[t])
         /\ t \notin ReachFrom(graph, {source}) => result[t] = Zero

\* one target scores above its best path, another scores its best path
C29_Witness ==
  /\ Done /\ mode = "single"
  /\ \E t \in NodesOf(graph) :
       /\ RLt(Zero, MaxProduct(graph, source)[t])
       /\ RLt(MaxProduct(graph, source)[t], result[t])
  /\ \E t \in NodesOf(graph) :
       /\ result[t] = MaxProduct(graph, source)[t]
       /\ RLt(Zero, result[t]) /\ RLt(result[t], One)

\* the nodes a directed path of edges of positive weight leads to from S
RECURSIVE PositiveReach(_, _)
PositiveReach(g, S) ==
  LET T == S \cup {g.out[u][i].target :
                     <<u, i>> \in {<<u, i>> \in S \X (1..Len(g.nodes)) :
                                     /\ i <= Len(g.out[u])
                                     /\ RLt(Zero, g.out[u][i].positiveWeight)}}
  IN  IF T = S THEN S ELSE PositiveReach(g, T)

\* C30: in the one-weight engine a node other than the source has a final
\* score > 0 if and only if a directed path leads to it from the source on
\* which every weight is > 0.
C30_PositiveIffPath ==
  (Done /\ mode = "single")
    => \A t \in NodesOf(graph) \ {source} :
         RLt(Zero, result[t]) <=> t \in PositiveReach(graph, {source})

\* one node is reached only over an edge of weight 0, another over edges of
\* positive weight
C30_Witness ==
  /\ Done /\ mode = "single"
  /\ \E t \in ReachFrom(graph, {source}) : t \notin PositiveReach(graph, {source})
  /\ \E t \in PositiveReach(graph, {source}) \ {source} :
       RLt(Zero, result[t]) /\ RLt(result[t], One)


SingleScores ==
  resultOf("single", graph, source, runLoop("single", graph, initialize(graph, source)))

\* C31: distrust never raises trust: for every two-weight graph, source and
\* node x, the positiveScore of x the two-weight engines return is <= the
\* score the one-weight engine returns for x on the same graph with the
\* positiveWeight of every edge as its weight.
C31_DistrustNeverRaisesTrust ==
  (Done /\ Dual)
    => \A x \in DOMAIN result :
         RLe(result[x].positiveScore, SingleScores[x])

\* negative weights have left a node with a positive positiveScore below
\* its one-weight score
C31_Witness ==
  /\ Done /\ Dual
  /\ ~NoNegative(graph)
  /\ \E x \in DOMAIN result :
       /\ RLt(Zero, result[x].positiveScore)
       /\ RLt(result[x].positiveScore, SingleScores[x])


=============================================================================
